---- MODULE Spec2Model ----
(***************************************************************************)
(* A state-machine model of gz::sensors::DepthCameraSensor                 *)
(* (src/src/DepthCameraSensor.cc).                                         *)
(*                                                                         *)
(* Three threads act on one sensor instance:                               *)
(*   "tick"  calls Update (and, inside Render, runs the capture callbacks  *)
(*           synchronously),                                               *)
(*   "ctl"   calls Load and SetScene,                                      *)
(*   "rnd"   is the renderer delivering OnNewDepthFrame and                *)
(*           OnNewRgbPointCloud asynchronously.                            *)
(* Every statement of the code that touches shared state without the mutex *)
(* is a step of its own; statements executed under the mutex are grouped.  *)
(* A null dereference or a read through a null buffer ends the process     *)
(* (tickPc = "crashed").                                                   *)
(***************************************************************************)
EXTENDS Integers, Sequences, FiniteSets, TLC

\* ---------------------------------------------------------------- bounds

\* Number of pixels (ImageWidth * ImageHeight) of the configured camera.
NumSamples == 2

\* Number of depth messages published: Update is not called once the depth
\* sequence counter has reached it.
MaxDepthMsgs == 1

\* Number of Load calls made on the sensor instance.
MaxLoads == 1

\* Values of Update's _now argument.
Times == {1}

\* Number of direct callbacks that may be registered.
MaxCallbacks == 2

\* Number of frames saved: with frame saving on, the renderer delivers no
\* depth frame once saveImageCounter has reached it.
MaxSaves == 2

\* Frames the renderer can deliver: frame 1 is what the render pass started
\* by Update delivers, frame 2 what the renderer delivers on its own thread.
Frames == {1, 2}

\* The frames delivered on thread t.
FramesOn(t) == IF t = "tick" THEN {1} ELSE {2}

\* Scenes SetScene can be given (0 is "no scene").
Scenes == {1, 2}

\* Horizontal FOV values of the configuration, in milliradians:
\* 9 < 0.01 rad, 10 = 0.01 rad, 6283 < 2*pi rad < 6284.
HFovValues == {9, 10, 6284}

\* sdf::SensorType values: a depth camera, another camera type (it carries a
\* <camera> element), a type without a <camera> element.
SensorTypes == {"DEPTH_CAMERA", "CAMERA", "IMU"}

\* Outcomes of the Bus/base-class calls made by Load.
LoadOutcomes == {"ok", "baseFail", "pubFail", "infoFail", "pointPubFail"}

\* The calls of Load explored: every sensor type and every FOV value with a
\* Bus that accepts the topics, and every Bus/base-class failure for a valid
\* depth-camera description.
LoadInputs ==
  {<<type, hfov, "ok">> : type \in {"DEPTH_CAMERA"}, hfov \in HFovValues}
  \cup {<<"CAMERA", 10, "ok">>, <<"IMU", 10, "ok">>}
  \cup {<<"DEPTH_CAMERA", 10, o>> : o \in LoadOutcomes}

\* Behaviour of a direct callback.
CallbackKinds == {"ok", "throws"}

Threads == {"tick", "ctl", "rnd"}

\* Content of freshly allocated (new float[n]) memory.
Uninit == 0

VARIABLES
  initialized,          \* dataPtr->initialized
  depthCamera,          \* dataPtr->depthCamera: 0 (null) or the scene it lives in
  scene,                \* RenderingSensor scene: 0 (null) or a scene
  sdfSensor,            \* dataPtr->sdfSensor
  pub,                  \* dataPtr->pub is a valid publisher
  pointPub,             \* dataPtr->pointPub is a valid publisher
  depthConnection,      \* dataPtr->depthConnection holds a connection
  pointCloudConnection, \* dataPtr->pointCloudConnection holds a connection
  depthBuffer,          \* dataPtr->depthBuffer: <<>> is nullptr
  pointCloudBuffer,     \* dataPtr->pointCloudBuffer: <<>> is nullptr
  xyzBuffer,            \* dataPtr->xyzBuffer: <<>> is nullptr
  image,                \* dataPtr->image data: <<>> is an empty image
  pointMsg,             \* dataPtr->pointMsg
  seqNum,               \* Sensor sequence counters, by id
  imageEvent,           \* dataPtr->imageEvent: the registered callbacks
  mutex,                \* dataPtr->mutex: "free" or the thread holding it
  tickPc, tick,         \* the tick thread: position, locals and record
  ctlPc, ctl,           \* the control thread: position, locals and record
  cap,                  \* the capture callback running on "tick" / "rnd"
  loads,                \* number of Load calls made
  notReadySeen,         \* an earlier Update failed at step 1
  saveImage,            \* dataPtr->saveImage
  saveImageCounter,     \* dataPtr->saveImageCounter
  saved,                \* the file names given to SavePNG, in order
  calc,                 \* a call of one of the pure functions: input, result
  imageSize,            \* depthCamera->ImageWidth() * ImageHeight()
  overrun               \* the accesses made beyond a buffer's allocation

sensorVars == <<initialized, depthCamera, scene, sdfSensor, pub, pointPub,
                depthConnection, pointCloudConnection>>
bufferVars == <<depthBuffer, pointCloudBuffer, xyzBuffer, image, pointMsg>>
saveVars == <<saveImage, saveImageCounter, saved>>
dimVars == <<imageSize, overrun>>
vars == <<initialized, depthCamera, scene, sdfSensor, pub, pointPub,
          depthConnection, pointCloudConnection, depthBuffer,
          pointCloudBuffer, xyzBuffer, image, pointMsg, seqNum, imageEvent,
          mutex, tickPc, tick, ctlPc, ctl, cap, loads,
          notReadySeen, saveImage, saveImageCounter, saved, calc,
          imageSize, overrun>>

\* ------------------------------------------------------------ data model

\* The depth frame k of n pixels: one range value per pixel.
DepthFrameSized(k, n) == [i \in 1..n |-> 10 * k + i]

\* The point-cloud frame k of n pixels: per pixel <<x, y, z, rgba>>.
CloudFrameSized(k, n) == [i \in 1..n |-> <<10 * k + i, i, k, 0>>]

\* The depth frame k the renderer delivers for the configured image size.
DepthFrame(k) == DepthFrameSized(k, NumSamples)

\* The point-cloud frame k for the configured image size.
CloudFrame(k) == CloudFrameSized(k, NumSamples)

\* The image sizes (width * height) a camera or a delivered frame can have.
ImageSizes == 1..NumSamples

\* What a read beyond the end of an allocation can return.
HeapJunk == {0, 99}

\* n elements read through a pointer to buf: beyond the allocation the
\* read returns whatever the heap holds there.
ReadBeyond(buf, n, junk) ==
  [i \in 1..n |-> IF i <= Len(buf) THEN buf[i] ELSE junk]

\* src written through a pointer to buf: the elements that fit; what is
\* written beyond the allocation lands outside the buffer.
WriteWithin(buf, src) ==
  [i \in 1..Len(buf) |-> IF i <= Len(src) THEN src[i] ELSE buf[i]]

DepthFrames == {DepthFrame(k) : k \in Frames}
CloudFrames == {CloudFrame(k) : k \in Frames}

\* +infinity as a depth sample ("no return"); finite samples are below it.
Inf == 1000

\* Depth samples ConvertDepthToImage is called with.
ConvSamples == {0, 1, 3, 7, Inf}

RECURSIVE MaxDepthWithInf(_, _, _)
\* A running maximum that does not leave the infinite samples out.
MaxDepthWithInf(data, i, m) ==
  IF i > Len(data) THEN m
  ELSE MaxDepthWithInf(data, i + 1, IF data[i] > m THEN data[i] ELSE m)

RECURSIVE MaxDepthFrom(_, _, _)
\* First loop of ConvertDepthToImage: the running maximum over samples i..n,
\* if (_data[i] > maxDepth && !std::isinf(_data[i])) maxDepth = _data[i].
MaxDepthFrom(data, i, m) ==
  IF i > Len(data) THEN m
  ELSE MaxDepthFrom(data, i + 1,
                    IF data[i] > m /\ data[i] # Inf THEN data[i] ELSE m)

\* static_cast<unsigned char>(255 - d * (255 / maxDepth)) for a finite
\* sample 0 <= d <= maxDepth, maxDepth > 0: truncation of 255 - 255*d/maxDepth.
DepthToByte(d, maxDepth) == 255 - ((255 * d + maxDepth - 1) \div maxDepth)

\* ConvertDepthToImage: the byte of pixel j replicated in three channels.
ConvertDepthToImage(data) ==
  LET maxDepth == MaxDepthFrom(data, 1, 0)
  IN [c \in 1..(3 * Len(data)) |->
        DepthToByte(data[((c - 1) \div 3) + 1], maxDepth)]

\* Whether static_cast<unsigned char>(255 - _data[j] * factor), with
\* factor = 255 / maxDepth, converts a value within the range of unsigned
\* char: an infinite sample gives -inf, maxDepth = 0 gives factor = +inf and
\* then -inf or NaN (0 * inf), and converting those is undefined.
CastDefined(d, maxDepth) == d # Inf /\ maxDepth # 0

\* The bytes an undefined conversion leaves in the image: the low or the
\* saturated value, by target and optimisation level.
UndefinedBytes == {0, 255}

\* The byte written for sample d.
ByteOutcomes(d, maxDepth) ==
  IF CastDefined(d, maxDepth) THEN {DepthToByte(d, maxDepth)}
  ELSE UndefinedBytes

\* The possible results of ConvertDepthToImage(data): the image, and per
\* pixel whether its byte is the result of a defined conversion.
ConvertOutcomes(data) ==
  LET maxDepth == MaxDepthFrom(data, 1, 0)
      n == Len(data)
      defd == [j \in 1..n |-> CastDefined(data[j], maxDepth)]
  IN IF \A j \in 1..n : defd[j]
     THEN {[image |-> ConvertDepthToImage(data), defined |-> defd,
            maxDepth |-> maxDepth]}
     ELSE {[image |-> [c \in 1..(3 * n) |-> b[((c - 1) \div 3) + 1]],
            defined |-> defd, maxDepth |-> maxDepth] :
           b \in {f \in [1..n -> UNION {ByteOutcomes(data[j], maxDepth) :
                                             j \in 1..n}] :
                    \A j \in 1..n : f[j] \in ByteOutcomes(data[j], maxDepth)}}

\* PointCloudUtil::XYZFromPointCloud: x, y, z of every point.
XYZFromPointCloud(cloud) ==
  [c \in 1..(3 * Len(cloud)) |-> cloud[((c - 1) \div 3) + 1][((c - 1) % 3) + 1]]

\* PointCloudUtil::FillMsg: per point, its xyz and its packed rgb.
FillMsg(xyz, rgb) ==
  [i \in 1..(Len(xyz) \div 3) |->
     <<xyz[3 * i - 2], xyz[3 * i - 1], xyz[3 * i],
       <<rgb[3 * i - 2], rgb[3 * i - 1], rgb[3 * i]>> >>]

\* ------------------------------------------------------ projection math

RECURSIVE GCD(_, _)
GCD(a, b) == IF b = 0 THEN a ELSE GCD(b, a % b)

Abs(x) == IF x < 0 THEN -x ELSE x

\* A double, kept exact: the fraction n/d in lowest terms with d > 0.
Frac(n, d) ==
  LET g == GCD(Abs(n), Abs(d))
      sgn == IF d < 0 THEN -1 ELSE 1
  IN <<(sgn * n) \div g, (sgn * d) \div g>>

FInt(k) == <<k, 1>>
FAdd(a, b) == Frac(a[1] * b[2] + b[1] * a[2], a[2] * b[2])
FNeg(a) == <<-a[1], a[2]>>
FSub(a, b) == FAdd(a, FNeg(b))
FMul(a, b) == Frac(a[1] * b[1], a[2] * b[2])
FDiv(a, b) == Frac(a[1] * b[2], a[2] * b[1])

\* math::Matrix4d(v00, v01, ..., v33): the element (r, c) is v[4r + c + 1].
Matrix4d(v) == [r \in 0..3 |-> [c \in 0..3 |-> v[4 * r + c + 1]]]

\* math::Matrix4d::operator*.
MatMul(A, B) ==
  [r \in 0..3 |-> [c \in 0..3 |->
     FAdd(FAdd(FMul(A[r][0], B[0][c]), FMul(A[r][1], B[1][c])),
          FAdd(FMul(A[r][2], B[2][c]), FMul(A[r][3], B[3][c])))]]

\* BuildNDCMatrix.
BuildNDCMatrix(left, right, bottom, top, near, far) ==
  LET inverseWidth == FDiv(FInt(1), FSub(right, left))
      inverseHeight == FDiv(FInt(1), FSub(top, bottom))
      inverseDistance == FDiv(FInt(1), FSub(far, near))
      z == FInt(0)
  IN Matrix4d(<<
       FMul(FInt(2), inverseWidth), z, z,
         FMul(FNeg(FAdd(right, left)), inverseWidth),
       z, FMul(FInt(2), inverseHeight), z,
         FMul(FNeg(FAdd(top, bottom)), inverseHeight),
       z, z, FMul(FInt(-2), inverseDistance),
         FMul(FNeg(FAdd(far, near)), inverseDistance),
       z, z, z, FInt(1)>>)

\* A perspective matrix whose principal point x is not negated.
BuildPerspectiveMatrixCxSign(fx, fy, cx, cy, skew, near, far) ==
  LET z == FInt(0)
  IN Matrix4d(<<
       fx, skew, cx, z,
       z, fy, FNeg(cy), z,
       z, z, FAdd(near, far), FMul(near, far),
       z, z, FInt(-1), z>>)

\* BuildPerspectiveMatrix.
BuildPerspectiveMatrix(fx, fy, cx, cy, skew, near, far) ==
  LET z == FInt(0)
  IN Matrix4d(<<
       fx, skew, FNeg(cx), z,
       z, fy, FNeg(cy), z,
       z, z, FAdd(near, far), FMul(near, far),
       z, z, FInt(-1), z>>)

\* A projection matrix built without the flip of the principal point's y.
BuildProjectionMatrixNoFlip(width, height, fx, fy, cx, cy, skew, near, far) ==
  MatMul(BuildNDCMatrix(FInt(0), width, FInt(0), height, near, far),
         BuildPerspectiveMatrix(fx, fy, cx, cy, skew, near, far))

\* BuildProjectionMatrix: NDC(0, width, 0, height) * Perspective(..., cx,
\* height - cy, ...).
BuildProjectionMatrix(width, height, fx, fy, cx, cy, skew, near, far) ==
  MatMul(BuildNDCMatrix(FInt(0), width, FInt(0), height, near, far),
         BuildPerspectiveMatrix(fx, fy, cx, FSub(height, cy), skew,
                                near, far))

\* gz::rendering::projectionToCameraIntrinsic, called by CreateCamera when
\* the description has no lens intrinsics: fx = P(0,0) * width / 2 and so on
\* for fy, cx, cy.
ProjectionToCameraIntrinsic(P, width, height) ==
  [fx |-> FDiv(FMul(P[0][0], width), FInt(2)),
   fy |-> FDiv(FMul(P[1][1], height), FInt(2)),
   cx |-> FDiv(FMul(FNeg(width), FSub(P[0][2], FInt(1))), FInt(2)),
   cy |-> FAdd(height, FDiv(FMul(height, FSub(P[1][2], FInt(1))), FInt(2)))]

\* sensor configuration

\* The angle check of CreateCamera: angle < 0.01 || angle > GZ_PI*2.
InvalidFov(h) == h < 10 \/ h > 6283

\* sdf::Sensor::CameraSensor() is non-null for the camera sensor types.
HasCameraElement(type) == type \in {"DEPTH_CAMERA", "CAMERA"}

\* ------------------------------------------------------------ the mutex

\* std::lock_guard<std::mutex> constructor on thread t.
Lock(t) == mutex = "free" /\ mutex' = t

\* std::lock_guard destructor.
Unlock == mutex' = "free"

\* ---------------------------------------------------------- subscribers

\* A depth-subscriber test that takes a valid publisher for a subscriber.
HasDepthConnectionsAnyPublisher(busDepth) == pub \/ Len(imageEvent) > 0

\* The Bus answers pub.HasConnections() with busDepth: whether a subscriber
\* is connected to the depth topic at the time of the call.
HasDepthConnections(busDepth) == (pub /\ busDepth) \/ Len(imageEvent) > 0

\* The Bus answers pointPub.HasConnections() with busPoint.
HasPointConnections(busPoint) == pointPub /\ busPoint

\* ------------------------------------------------------------- records

\* The tick thread's record of the Update call in progress or just returned.
TickInit ==
  [ret |-> "none", step1 |-> "none", checkedSubs |-> FALSE,
   depthSub |-> FALSE, pointSub |-> FALSE, rendered |-> FALSE,
   pending |-> {}, info |-> 0, depthMsgs |-> <<>>, pointMsgs |-> <<>>,
   nCallbacks |-> 0, invoked |-> <<>>, raised |-> FALSE,
   reached7 |-> FALSE, pointSub7 |-> FALSE, cloudReady7 |-> FALSE,
   read7 |-> <<>>, wrote |-> {}, now |-> 0, saveFailed |-> FALSE,
   size |-> 0, fault |-> "none", xyzSize7 |-> 0, imageSize7 |-> 0]

\* The control thread's record of the Load / SetScene call in progress or
\* just returned.
CtlInit ==
  [op |-> "none", type |-> "none", ret |-> "none", createRet |-> "none"]

CapIdle == [pc |-> "idle", kind |-> "none", frame |-> 0, i |-> 0, n |-> 0]

\* No pure function is being called.
CalcIdle == [op |-> "none"]

\* The sensor right after construction.
SensorInit ==
  /\ initialized = FALSE
  /\ depthCamera = 0
  /\ scene = 0
  /\ sdfSensor = [camera |-> FALSE, hfov |-> 0, save |-> FALSE]
  /\ pub = FALSE
  /\ pointPub = FALSE
  /\ depthConnection = FALSE
  /\ pointCloudConnection = FALSE
  /\ depthBuffer = <<>>
  /\ pointCloudBuffer = <<>>
  /\ xyzBuffer = <<>>
  /\ image = <<>>
  /\ pointMsg = [layout |-> FALSE, dense |-> FALSE, stamp |-> 0,
                 seq |-> 0, data |-> <<>>]
  /\ seqNum = [default |-> 0, pointMsg |-> 0]
  /\ imageEvent = <<>>
  /\ mutex = "free"
  /\ tickPc = "idle"
  /\ tick = TickInit
  /\ ctlPc = "idle"
  /\ ctl = CtlInit
  /\ cap = [t \in {"tick", "rnd"} |-> CapIdle]
  /\ loads = 0
  /\ notReadySeen = FALSE
  /\ saveImage = FALSE
  /\ saveImageCounter = 0
  /\ saved = <<>>
  /\ imageSize = NumSamples
  /\ overrun = {}

Init == SensorInit /\ calc = CalcIdle

\* The process is running: no thread has dereferenced a null pointer.
Alive == tickPc # "crashed"

\* ---------------------------------------------------- capture callbacks

\* A capture callback that copies without waiting for the mutex.
CaptureWithoutLock(t) == UNCHANGED mutex

\* The mutex acquisition that opens OnNewDepthFrame / OnNewRgbPointCloud.
CaptureLock(t) == Lock(t)

\* The renderer invokes a capture callback on thread t: asynchronously on
\* "rnd" whenever the connection exists, synchronously on "tick" for the
\* callbacks the running Render has still to deliver.
Delivers(t, kind) ==
  IF t = "tick"
  THEN tickPc = "render" /\ kind \in tick.pending
  ELSE IF kind = "depth" THEN depthConnection ELSE pointCloudConnection

\* The record of the tick thread after one of its synchronous captures ended.
TickAfterCapture(t, kind, field) ==
  IF t = "tick"
  THEN [tick EXCEPT !.pending = @ \ {kind}, !.wrote = @ \cup {field}]
  ELSE tick

\* OnNewDepthFrame, entry, with a frame of n pixels: the lock_guard.
OnNewDepthFrameEnter(t, k, n) ==
  /\ Alive
  /\ cap[t].pc = "idle"
  /\ Delivers(t, "depth")
  /\ saveImage => saveImageCounter < MaxSaves
  /\ CaptureLock(t)
  /\ cap' = [cap EXCEPT ![t] = [pc |-> "copy", kind |-> "depth",
                                frame |-> k, i |-> 0, n |-> n]]
  /\ UNCHANGED <<sensorVars, bufferVars, seqNum, imageEvent, tickPc, tick,
                 ctlPc, ctl, loads, notReadySeen,
                 saveVars, calc, dimVars>>

\* OnNewDepthFrame, body: lazy allocation, then memcpy, one sample a step;
\* after the last sample, SaveImage if saveImage is set, else the return,
\* which releases the mutex.
OnNewDepthFrameCopy(t) ==
  /\ Alive
  /\ cap[t].pc = "copy"
  /\ cap[t].kind = "depth"
  /\ LET i == cap[t].i + 1
         n == cap[t].n
         base == IF depthBuffer = <<>>
                 THEN [j \in 1..n |-> Uninit]
                 ELSE depthBuffer
     IN /\ IF i <= Len(base)
           THEN /\ depthBuffer' = [base EXCEPT ![i] =
                                     DepthFrameSized(cap[t].frame, n)[i]]
                /\ UNCHANGED overrun
           ELSE /\ depthBuffer' = base
                /\ overrun' = overrun \cup {"depthBuffer write"}
        /\ IF i = n /\ ~saveImage
           THEN /\ cap' = [cap EXCEPT ![t] = CapIdle]
                /\ Unlock
                /\ tick' = TickAfterCapture(t, "depth", "depthBuffer")
           ELSE /\ cap' = [cap EXCEPT ![t].i = i,
                                      ![t].pc = IF i = n THEN "save"
                                                ELSE "copy"]
                /\ UNCHANGED <<mutex, tick>>
  /\ UNCHANGED <<sensorVars, pointCloudBuffer, xyzBuffer, image, pointMsg,
                 seqNum, imageEvent, tickPc, ctlPc, ctl, loads, notReadySeen,
                 saveVars, calc, imageSize>>

\* SaveImage, lines 245-252: whether the call gets as far as writing a file.
\* dirOk: the directory exists or createDirectories succeeds.
SaveImageProceeds(dirOk, width, height) ==
  dirOk /\ width # 0 /\ height # 0

\* std::to_string(saveImageCounter) of the file name: the counter's value.
SaveImageFileName(counter) == counter

\* A counter that is not advanced after the file name is built.
SaveImageCounterStuck(counter) == counter

\* ++saveImageCounter.
SaveImageCounterNext(counter) == counter + 1

\* OnNewDepthFrame, lines 615-621: if (saveImage) SaveImage(_scan, ...); the
\* result of SaveImage is not looked at; the return releases the mutex.
OnNewDepthFrameSave(t, dirOk) ==
  /\ Alive
  /\ cap[t].pc = "save"
  /\ IF SaveImageProceeds(dirOk, cap[t].n, 1)
     THEN /\ saved' = Append(saved, SaveImageFileName(saveImageCounter))
          /\ saveImageCounter' = SaveImageCounterNext(saveImageCounter)
          /\ tick' = TickAfterCapture(t, "depth", "depthBuffer")
     ELSE /\ UNCHANGED <<saved, saveImageCounter>>
          /\ tick' = [TickAfterCapture(t, "depth", "depthBuffer") EXCEPT
                        !.saveFailed = (@ \/ t = "tick")]
  /\ cap' = [cap EXCEPT ![t] = CapIdle]
  /\ Unlock
  /\ UNCHANGED <<sensorVars, bufferVars, seqNum, imageEvent, tickPc, ctlPc,
                 ctl, loads, notReadySeen, saveImage, calc, dimVars>>

\* OnNewRgbPointCloud, entry, with a frame of n pixels: the lock_guard.
OnNewRgbPointCloudEnter(t, k, n) ==
  /\ Alive
  /\ cap[t].pc = "idle"
  /\ Delivers(t, "cloud")
  /\ CaptureLock(t)
  /\ cap' = [cap EXCEPT ![t] = [pc |-> "copy", kind |-> "cloud",
                                frame |-> k, i |-> 0, n |-> n]]
  /\ UNCHANGED <<sensorVars, bufferVars, seqNum, imageEvent, tickPc, tick,
                 ctlPc, ctl, loads, notReadySeen,
                 saveVars, calc, dimVars>>

\* OnNewRgbPointCloud, body: lazy allocation, then memcpy, one point a step.
OnNewRgbPointCloudCopy(t) ==
  /\ Alive
  /\ cap[t].pc = "copy"
  /\ cap[t].kind = "cloud"
  /\ LET i == cap[t].i + 1
         n == cap[t].n
         base == IF pointCloudBuffer = <<>>
                 THEN [j \in 1..n |-> <<Uninit, Uninit, Uninit, Uninit>>]
                 ELSE pointCloudBuffer
     IN /\ IF i <= Len(base)
           THEN /\ pointCloudBuffer' =
                     [base EXCEPT ![i] = CloudFrameSized(cap[t].frame, n)[i]]
                /\ UNCHANGED overrun
           ELSE /\ pointCloudBuffer' = base
                /\ overrun' = overrun \cup {"pointCloudBuffer write"}
        /\ IF i = n
           THEN /\ cap' = [cap EXCEPT ![t] = CapIdle]
                /\ Unlock
                /\ tick' = TickAfterCapture(t, "cloud", "pointCloudBuffer")
           ELSE /\ cap' = [cap EXCEPT ![t].i = i]
                /\ UNCHANGED <<mutex, tick>>
  /\ UNCHANGED <<sensorVars, depthBuffer, xyzBuffer, image, pointMsg,
                 seqNum, imageEvent, tickPc, ctlPc, ctl, loads, notReadySeen,
                 saveVars, calc, imageSize>>

\* --------------------------------------------------------------- Update

\* The caller invokes Update(_now), as long as fewer than `budget` depth
\* messages have been published:
\* if (!initialized) { gzerr; return false; }
UpdateCheckInitialized(now, budget) ==
  /\ Alive
  /\ tickPc = "idle"
  /\ seqNum.default < budget
  /\ IF ~initialized
     THEN /\ tick' = [TickInit EXCEPT !.now = now, !.step1 = "notInit",
                                      !.ret = "false"]
          /\ tickPc' = "done"
          /\ notReadySeen' = TRUE
     ELSE /\ tick' = [TickInit EXCEPT !.now = now]
          /\ tickPc' = "checkCamera"
          /\ UNCHANGED notReadySeen
  /\ UNCHANGED <<sensorVars, bufferVars, seqNum, imageEvent, mutex, ctlPc,
                 ctl, cap, loads,
                 saveVars, calc, dimVars>>

\* A camera check that reports the missing camera and goes on.
UpdateCheckCameraGoesOn ==
  /\ tickPc = "checkCamera"
  /\ tick' = [tick EXCEPT !.step1 = IF depthCamera = 0 THEN "noCamera"
                                    ELSE "passed"]
  /\ tickPc' = "checkSubs"
  /\ notReadySeen' = (notReadySeen \/ depthCamera = 0)
  /\ UNCHANGED <<sensorVars, bufferVars, seqNum, imageEvent, mutex, ctlPc,
                 ctl, cap, loads,
                 saveVars, calc, dimVars>>

\* if (!depthCamera) { gzerr; return false; }
UpdateCheckCamera ==
  /\ tickPc = "checkCamera"
  /\ IF depthCamera = 0
     THEN /\ tick' = [tick EXCEPT !.step1 = "noCamera", !.ret = "false"]
          /\ tickPc' = "done"
          /\ notReadySeen' = TRUE
     ELSE /\ tick' = [tick EXCEPT !.step1 = "passed"]
          /\ tickPc' = "checkSubs"
          /\ UNCHANGED notReadySeen
  /\ UNCHANGED <<sensorVars, bufferVars, seqNum, imageEvent, mutex, ctlPc,
                 ctl, cap, loads,
                 saveVars, calc, dimVars>>

\* if (HasInfoConnections()) PublishInfo(_now);
\* if (!HasDepthConnections() && !HasPointConnections()) return false;
\* this->Render(): the render pass starts; the renderer will deliver a frame
\* to every capture callback that is connected.
UpdateCheckSubscribers(busInfo, busDepth, busPoint) ==
  /\ tickPc = "checkSubs"
  /\ LET t1 == [tick EXCEPT
                  !.info = IF busInfo THEN 1 ELSE 0,
                  !.checkedSubs = TRUE,
                  !.depthSub = (pub /\ busDepth) \/ Len(imageEvent) > 0,
                  !.pointSub = (pointPub /\ busPoint)]
     IN IF ~HasDepthConnections(busDepth) /\ ~HasPointConnections(busPoint)
        THEN /\ tick' = [t1 EXCEPT !.ret = "false"]
             /\ tickPc' = "done"
        ELSE /\ tick' = [t1 EXCEPT
                !.rendered = TRUE,
                !.pending = (IF depthConnection THEN {"depth"} ELSE {})
                     \cup (IF pointCloudConnection THEN {"cloud"} ELSE {})]
             /\ tickPc' = "render"
  /\ UNCHANGED <<sensorVars, bufferVars, seqNum, imageEvent, mutex, ctlPc,
                 ctl, cap, loads, notReadySeen,
                 saveVars, calc, dimVars>>

\* Render() returns; width = depthCamera->ImageWidth(), height likewise:
\* a null depthCamera is dereferenced.
UpdateReadDimensions ==
  /\ tickPc = "render"
  /\ tick.pending = {}
  /\ cap["tick"].pc = "idle"
  /\ IF depthCamera = 0
     THEN /\ tickPc' = "crashed"
          /\ tick' = [tick EXCEPT !.fault = "nullCamera"]
     ELSE /\ tickPc' = "lock"
          /\ tick' = [tick EXCEPT !.size = imageSize]
  /\ UNCHANGED <<sensorVars, bufferVars, seqNum, imageEvent, mutex,
                 ctlPc, ctl, cap, loads, notReadySeen,
                 saveVars, calc, dimVars>>

\* The sequence id of the depth message, line 724.
DepthSequenceId == "default"

\* A point-cloud message numbered with the depth message's id.
PointSequenceIdOfDepth == "default"

\* The sequence id of the point-cloud message, line 774.
PointSequenceId == "pointMsg"

\* Sensor::AddSequence(header, id): the header gets the counter of id, and
\* that counter advances by one.
AddSequence(seq, id) == [seq EXCEPT ![id] = @ + 1]

RECURSIVE InvokedUntilThrow(_, _)
\* EventT::Signal: the callbacks are called in connection order; a callback
\* that throws ends the loop.  The indices of the callbacks called.
InvokedUntilThrow(cbs, i) ==
  IF i > Len(cbs) THEN <<>>
  ELSE IF cbs[i] = "throws" THEN <<i>>
  ELSE <<i>> \o InvokedUntilThrow(cbs, i + 1)

\* A try block whose handler lets the exception through.
EscapesWithoutHandler(thrown) == thrown

\* try { imageEvent(msg); } catch (...) { gzerr }: whether an exception
\* thrown inside the block leaves it.  The handler catches everything.
EscapesTryBlock(thrown) == FALSE

\* A lock that covers the copy of the depth payload only.
UpdateLockForCopyOnly == mutex = "free" /\ UNCHANGED mutex

\* std::lock_guard<std::mutex> lock(mutex), line 719: held from here until
\* Update returns.
UpdateLock == Lock("tick")

\* std::lock_guard<std::mutex> lock(mutex);
\* msg.set_data(depthBuffer, MemorySize(width, height)): reads width*height
\* floats through depthBuffer, a null pointer if no frame was ever captured;
\* AddSequence(header, "default"); pub.Publish(msg);
\* if (imageEvent.ConnectionCount() > 0u) try { imageEvent(msg); } catch(...)
UpdatePublishDepth ==
  /\ tickPc = "lock"
  /\ UpdateLock
  /\ IF depthBuffer = <<>>
     THEN /\ tickPc' = "crashed"
          /\ tick' = [tick EXCEPT !.fault = "nullDepthBuffer"]
          /\ UNCHANGED <<seqNum, overrun>>
     ELSE \E junk \in HeapJunk :
          LET called == IF Len(imageEvent) > 0
                        THEN InvokedUntilThrow(imageEvent, 1) ELSE <<>>
              thrown == \E i \in 1..Len(called) :
                           imageEvent[called[i]] = "throws"
              escapes == EscapesTryBlock(thrown)
          IN /\ tick' = [tick EXCEPT
                  !.depthMsgs =
                     Append(@, [data |-> ReadBeyond(depthBuffer, tick.size,
                                                    junk),
                                stamp |-> tick.now,
                                seq |-> seqNum[DepthSequenceId]]),
                  !.wrote = @ \cup {"seqNum"},
                  !.nCallbacks = Len(imageEvent),
                  !.invoked = called,
                  !.raised = thrown,
                  !.ret = IF escapes THEN "exception" ELSE @]
             /\ seqNum' = AddSequence(seqNum, DepthSequenceId)
             /\ overrun' = IF tick.size > Len(depthBuffer)
                           THEN overrun \cup {"depthBuffer read"}
                           ELSE overrun
             /\ tickPc' = IF escapes THEN "unwind" ELSE "points"
  /\ UNCHANGED <<sensorVars, bufferVars, imageEvent, ctlPc, ctl, cap,
                 loads, notReadySeen,
                 saveVars, calc, imageSize>>

\* if (!xyzBuffer) xyzBuffer = new float[width*height*3]: the buffer that
\* XYZFromPointCloud is given, for an image of w pixels.
XyzAllocation(xyz, w) ==
  IF xyz = <<>> THEN [j \in 1..(3 * w) |-> Uninit] ELSE xyz

\* if (image.Width() != width || image.Height() != height)
\*   image = rendering::Image(width, height, PF_R8G8B8).
ImageAllocation(img, w) ==
  IF Len(img) # 3 * w THEN [j \in 1..(3 * w) |-> 0] ELSE img

\* if (HasPointConnections() && pointCloudBuffer) { ... pointPub.Publish }
\* return true;   (an exception leaving Update unwinds here instead)
UpdatePublishPoints(busPoint) ==
  /\ tickPc \in {"points", "unwind"}
  /\ IF tickPc = "unwind"
     THEN UNCHANGED <<tick, xyzBuffer, image, pointMsg, seqNum, overrun>>
     ELSE
     LET t1 == [tick EXCEPT !.reached7 = TRUE,
                            !.pointSub7 = (pointPub /\ busPoint),
                            !.cloudReady7 = pointCloudBuffer # <<>>,
                            !.ret = "true"]
     IN IF HasPointConnections(busPoint) /\ pointCloudBuffer # <<>>
        THEN \E junk \in HeapJunk :
             LET w == tick.size
                 xyz0 == XyzAllocation(xyzBuffer, w)
                 img0 == ImageAllocation(image, w)
                 cloud == ReadBeyond(pointCloudBuffer, w,
                                     <<junk, junk, junk, junk>>)
                 depth == ReadBeyond(depthBuffer, w, junk)
                 xyz == WriteWithin(xyz0, XYZFromPointCloud(cloud))
                 img == WriteWithin(img0, ConvertDepthToImage(depth))
                 msg == [pointMsg EXCEPT
                           !.stamp = tick.now,
                           !.dense = TRUE,
                           !.data = FillMsg(ReadBeyond(xyz, 3 * w, junk), img),
                           !.seq = seqNum[PointSequenceId]]
             IN /\ xyzBuffer' = xyz
                /\ image' = img
                /\ pointMsg' = msg
                /\ seqNum' = AddSequence(seqNum, PointSequenceId)
                /\ overrun' = overrun
                     \cup (IF w > Len(pointCloudBuffer)
                           THEN {"pointCloudBuffer read"} ELSE {})
                     \cup (IF w > Len(depthBuffer)
                           THEN {"depthBuffer read"} ELSE {})
                     \cup (IF 3 * w > Len(xyz0)
                           THEN {"xyzBuffer write"} ELSE {})
                /\ tick' = [t1 EXCEPT
                              !.read7 = <<depthBuffer, pointCloudBuffer>>,
                              !.xyzSize7 = Len(xyz0),
                              !.imageSize7 = Len(img0),
                              !.pointMsgs = Append(@, msg),
                              !.wrote = @ \cup {"xyzBuffer", "image",
                                                "pointMsg", "seqNum"}]
        ELSE /\ tick' = t1
             /\ UNCHANGED <<xyzBuffer, image, pointMsg, seqNum, overrun>>
  /\ tickPc' = "done"
  /\ Unlock
  /\ UNCHANGED <<sensorVars, depthBuffer, pointCloudBuffer, imageEvent,
                 ctlPc, ctl, cap, loads, notReadySeen,
                 saveVars, calc, imageSize>>

\* Update has returned (tickPc = "done"); its caller goes on.
UpdateReturn ==
  /\ tickPc = "done"
  /\ tickPc' = "idle"
  /\ tick' = TickInit
  /\ UNCHANGED <<sensorVars, bufferVars, seqNum, imageEvent, mutex, ctlPc,
                 ctl, cap, loads, notReadySeen,
                 saveVars, calc, dimVars>>

\* ------------------------------------------------- Load and CreateCamera

\* The sensor-type check of Load: it reports a wrong type and goes on.
WrongTypeAborts(type) == FALSE

\* Load(_sdf) with a sensor description (its type, horizontal FOV and
\* <save> element), the Bus and the base class answering with `outcome`: the
\* lock_guard, then Sensor::Load to the advertisement of the point-cloud
\* topic.
LoadCall(type, hfov, outcome, save) ==
  /\ Alive
  /\ ctlPc = "idle"
  /\ loads < MaxLoads
  /\ loads' = loads + 1
  /\ LET c == [CtlInit EXCEPT !.op = "Load", !.type = type]
         failed == [c EXCEPT !.ret = "false"]
     IN IF outcome = "baseFail"
           \/ (type # "DEPTH_CAMERA" /\ WrongTypeAborts(type))
           \/ ~HasCameraElement(type)
        THEN /\ mutex = "free"
             /\ ctl' = failed
             /\ ctlPc' = "done"
             /\ UNCHANGED <<sdfSensor, pub, pointPub, mutex>>
        ELSE /\ sdfSensor' = [camera |-> TRUE, hfov |-> hfov, save |-> save]
             /\ pub' = (outcome # "pubFail")
             /\ IF outcome \in {"pubFail", "infoFail"}
                THEN /\ mutex = "free"
                     /\ ctl' = failed
                     /\ ctlPc' = "done"
                     /\ UNCHANGED <<pointPub, mutex>>
                ELSE /\ pointPub' = (outcome # "pointPubFail")
                     /\ IF outcome = "pointPubFail"
                        THEN /\ mutex = "free"
                             /\ ctl' = failed
                             /\ ctlPc' = "done"
                             /\ UNCHANGED mutex
                        ELSE /\ Lock("ctl")
                             /\ ctl' = c
                             /\ ctlPc' = IF scene # 0 THEN "createCamera"
                                         ELSE "loadEnd"
  /\ UNCHANGED <<initialized, depthCamera, scene, depthConnection,
                 pointCloudConnection, bufferVars, seqNum, imageEvent,
                 tickPc, tick, cap, notReadySeen,
                 saveVars, calc, dimVars>>

\* CreateCamera up to the FOV check: the camera object is created in the
\* scene, assigned to depthCamera and configured.
CreateCameraObject ==
  /\ Alive
  /\ ctlPc = "createCamera"
  /\ IF ~sdfSensor.camera
     THEN /\ ctl' = [ctl EXCEPT !.createRet = "false"]
          /\ ctlPc' = IF ctl.op = "Load" THEN "loadEnd" ELSE "setSceneEnd"
          /\ UNCHANGED depthCamera
     ELSE /\ depthCamera' = scene
          /\ ctlPc' = "createCameraFov"
          /\ UNCHANGED ctl
  /\ UNCHANGED <<initialized, scene, sdfSensor, pub, pointPub,
                 depthConnection, pointCloudConnection, bufferVars, seqNum,
                 imageEvent, mutex, tickPc, tick, cap, loads, notReadySeen,
                 saveVars, calc, dimVars>>

\* CreateCamera from the FOV check on: an invalid angle returns false; else
\* the capture callbacks are connected and the point message initialised.
CreateCameraFinish ==
  /\ Alive
  /\ ctlPc = "createCameraFov"
  /\ IF InvalidFov(sdfSensor.hfov)
     THEN /\ ctl' = [ctl EXCEPT !.createRet = "false"]
          /\ UNCHANGED <<depthConnection, pointCloudConnection, pointMsg,
                         saveImage>>
     ELSE /\ ctl' = [ctl EXCEPT !.createRet = "true"]
          /\ saveImage' = (saveImage \/ sdfSensor.save)
          /\ depthConnection' = TRUE
          /\ pointCloudConnection' = TRUE
          /\ pointMsg' = [layout |-> TRUE, dense |-> FALSE, stamp |-> 0,
                          seq |-> 0, data |-> <<>>]
  /\ ctlPc' = IF ctl.op = "Load" THEN "loadEnd" ELSE "setSceneEnd"
  /\ UNCHANGED <<initialized, depthCamera, scene, sdfSensor, pub, pointPub,
                 depthBuffer, pointCloudBuffer, xyzBuffer, image, seqNum,
                 imageEvent, mutex, tickPc, tick, cap, loads, notReadySeen,
                 saveImageCounter, saved, calc, dimVars>>

\* What Load returns once the scene-change callback is connected: the
\* result of CreateCamera is not looked at.
LoadResult(createRet) == "true"

\* The end of Load: initialized = true; return true.
LoadEnd ==
  /\ Alive
  /\ ctlPc = "loadEnd"
  /\ LET r == LoadResult(ctl.createRet)
     IN /\ initialized' = (IF r = "true" THEN TRUE ELSE initialized)
        /\ ctl' = [ctl EXCEPT !.ret = r]
  /\ ctlPc' = "done"
  /\ Unlock
  /\ UNCHANGED <<depthCamera, scene, sdfSensor, pub, pointPub,
                 depthConnection, pointCloudConnection, bufferVars, seqNum,
                 imageEvent, tickPc, tick, cap, loads, notReadySeen,
                 saveVars, calc, dimVars>>

\* ------------------------------------------------------------- SetScene

\* SetScene(_scene): the lock_guard, then
\* if (Scene() != _scene) { depthCamera = nullptr; RenderingSensor::SetScene;
\*   if (initialized) CreateCamera(); }
SetSceneCall(s) ==
  /\ Alive
  /\ ctlPc = "idle"
  /\ Lock("ctl")
  /\ ctl' = [CtlInit EXCEPT !.op = "SetScene"]
  /\ IF scene # s
     THEN /\ depthCamera' = 0
          /\ scene' = s
          /\ ctlPc' = IF initialized THEN "createCamera" ELSE "setSceneEnd"
     ELSE /\ ctlPc' = "setSceneEnd"
          /\ UNCHANGED <<depthCamera, scene>>
  /\ UNCHANGED <<initialized, sdfSensor, pub, pointPub, depthConnection,
                 pointCloudConnection, bufferVars, seqNum, imageEvent,
                 tickPc, tick, cap, loads, notReadySeen,
                 saveVars, calc, dimVars>>

\* SetScene returns: the lock_guard releases the mutex.
SetSceneEnd ==
  /\ Alive
  /\ ctlPc = "setSceneEnd"
  /\ ctl' = [ctl EXCEPT !.ret = "void"]
  /\ ctlPc' = "done"
  /\ Unlock
  /\ UNCHANGED <<sensorVars, bufferVars, seqNum, imageEvent, tickPc, tick,
                 cap, loads, notReadySeen,
                 saveVars, calc, dimVars>>

\* Load or SetScene has returned (ctlPc = "done"); its caller goes on.
ControlReturn ==
  /\ ctlPc = "done"
  /\ ctlPc' = "idle"
  /\ ctl' = CtlInit
  /\ UNCHANGED <<sensorVars, bufferVars, seqNum, imageEvent, mutex, tickPc,
                 tick, cap, loads, notReadySeen,
                 saveVars, calc, dimVars>>

\* ---------------------------------------------------------- environment

\* ConnectImageCallback: a direct callback is registered.
ConnectImageCallback(kind) ==
  /\ Alive
  /\ Len(imageEvent) < MaxCallbacks
  /\ imageEvent' = Append(imageEvent, kind)
  /\ UNCHANGED <<sensorVars, bufferVars, seqNum, mutex, tickPc, tick,
                 ctlPc, ctl, cap, loads, notReadySeen,
                 saveVars, calc, dimVars>>

\* --------------------------------------------------------- specification

Next ==
  \/ \E in \in LoadInputs : LoadCall(in[1], in[2], in[3], FALSE)
  \/ CreateCameraObject
  \/ CreateCameraFinish
  \/ LoadEnd
  \/ \E s \in Scenes : SetSceneCall(s)
  \/ SetSceneEnd
  \/ ControlReturn
  \/ \E now \in Times : UpdateCheckInitialized(now, MaxDepthMsgs)
  \/ UpdateCheckCamera
  \/ \E busInfo \in BOOLEAN, busDepth \in BOOLEAN, busPoint \in BOOLEAN :
       UpdateCheckSubscribers(busInfo, busDepth, busPoint)
  \/ UpdateReadDimensions
  \/ UpdatePublishDepth
  \/ \E busPoint \in BOOLEAN : UpdatePublishPoints(busPoint)
  \/ UpdateReturn
  \/ \E t \in {"tick", "rnd"} : \E k \in FramesOn(t) :
       OnNewDepthFrameEnter(t, k, imageSize)
  \/ \E t \in {"tick", "rnd"} : OnNewDepthFrameCopy(t)
  \/ \E t \in {"tick", "rnd"} : \E k \in FramesOn(t) :
       OnNewRgbPointCloudEnter(t, k, imageSize)
  \/ \E t \in {"tick", "rnd"} : OnNewRgbPointCloudCopy(t)
  \/ \E kind \in CallbackKinds : ConnectImageCallback(kind)

Spec == Init /\ [][Next]_vars

\* The sensor loaded with a valid depth-camera description that asks for
\* the frames to be saved; the save directory may or may not be creatable.
NextSave ==
  \/ LoadCall("DEPTH_CAMERA", 10, "ok", TRUE)
  \/ CreateCameraObject
  \/ CreateCameraFinish
  \/ LoadEnd
  \/ \E s \in Scenes : SetSceneCall(s)
  \/ SetSceneEnd
  \/ ControlReturn
  \/ \E now \in Times : UpdateCheckInitialized(now, MaxDepthMsgs)
  \/ UpdateCheckCamera
  \/ \E busInfo \in BOOLEAN, busDepth \in BOOLEAN, busPoint \in BOOLEAN :
       UpdateCheckSubscribers(busInfo, busDepth, busPoint)
  \/ UpdateReadDimensions
  \/ UpdatePublishDepth
  \/ \E busPoint \in BOOLEAN : UpdatePublishPoints(busPoint)
  \/ UpdateReturn
  \/ \E t \in {"tick", "rnd"} : \E k \in FramesOn(t) :
       OnNewDepthFrameEnter(t, k, imageSize)
  \/ \E t \in {"tick", "rnd"} : OnNewDepthFrameCopy(t)
  \/ \E t \in {"tick", "rnd"}, dirOk \in BOOLEAN : OnNewDepthFrameSave(t, dirOk)
  \/ \E t \in {"tick", "rnd"} : \E k \in FramesOn(t) :
       OnNewRgbPointCloudEnter(t, k, imageSize)
  \/ \E t \in {"tick", "rnd"} : OnNewRgbPointCloudCopy(t)

SpecSave == Init /\ [][NextSave]_vars

\* The image size of the camera is changed through the pointer that
\* DepthCamera() hands out (rendering::Camera::SetImageWidth / Height).
SetImageSize(n) ==
  /\ Alive
  /\ depthCamera # 0
  /\ imageSize # n
  /\ imageSize' = n
  /\ UNCHANGED <<sensorVars, bufferVars, seqNum, imageEvent, mutex, tickPc,
                 tick, ctlPc, ctl, cap, loads, notReadySeen, saveVars, calc,
                 overrun>>

\* The sensor loaded with a valid depth-camera description in a scene; the
\* camera's image size may change, and the render pass of a tick calls the
\* capture callbacks with frames of any size.
NextDims ==
  \/ LoadCall("DEPTH_CAMERA", 10, "ok", FALSE)
  \/ CreateCameraObject
  \/ CreateCameraFinish
  \/ LoadEnd
  \/ \E s \in {1} : SetSceneCall(s)
  \/ SetSceneEnd
  \/ ControlReturn
  \/ \E n \in ImageSizes : SetImageSize(n)
  \/ \E now \in Times : UpdateCheckInitialized(now, MaxDepthMsgs + 1)
  \/ UpdateCheckCamera
  \/ \E busDepth \in BOOLEAN, busPoint \in BOOLEAN :
       UpdateCheckSubscribers(FALSE, busDepth, busPoint)
  \/ UpdateReadDimensions
  \/ UpdatePublishDepth
  \/ \E busPoint \in BOOLEAN : UpdatePublishPoints(busPoint)
  \/ UpdateReturn
  \/ \E k \in FramesOn("tick"), n \in ImageSizes :
       OnNewDepthFrameEnter("tick", k, n)
  \/ OnNewDepthFrameCopy("tick")
  \/ \E k \in FramesOn("tick"), n \in ImageSizes :
       OnNewRgbPointCloudEnter("tick", k, n)
  \/ OnNewRgbPointCloudCopy("tick")

SpecDims == Init /\ [][NextDims]_vars

\* The steps a running Update takes without waiting for the mutex.
UpdateStep ==
  \/ UpdateCheckCamera
  \/ \E busInfo \in BOOLEAN, busDepth \in BOOLEAN, busPoint \in BOOLEAN :
       UpdateCheckSubscribers(busInfo, busDepth, busPoint)
  \/ UpdateReadDimensions
  \/ \E busPoint \in BOOLEAN : UpdatePublishPoints(busPoint)

\* The steps Load and SetScene take once they hold the mutex.
ControlStep ==
  CreateCameraObject \/ CreateCameraFinish \/ LoadEnd \/ SetSceneEnd

\* The copy loop of a capture callback that holds the mutex.
CaptureStep ==
  \E t \in {"tick", "rnd"} : OnNewDepthFrameCopy(t) \/ OnNewRgbPointCloudCopy(t)

\* The capture callbacks the render pass of Update calls on its own thread
\* ask for the mutex.
RenderCaptureEnter ==
  \E k \in FramesOn("tick") :
    \/ OnNewDepthFrameEnter("tick", k, imageSize)
    \/ OnNewRgbPointCloudEnter("tick", k, imageSize)

\* Scheduling: a thread that can take a step takes it; a thread that waits
\* for the mutex gets it if the mutex is free again and again.
Fairness ==
  /\ WF_vars(UpdateStep)
  /\ WF_vars(ControlStep)
  /\ WF_vars(CaptureStep)
  /\ SF_vars(UpdatePublishDepth)
  /\ SF_vars(RenderCaptureEnter)

\* The sensor with every thread scheduled fairly.
SpecLive == Init /\ [][Next]_vars /\ Fairness

\* ----------------------------------------------------- the pure functions

\* Everything but calc: the static helpers touch no field of the sensor.
sensorState == <<sensorVars, bufferVars, seqNum, imageEvent, mutex, tickPc,
                 tick, ctlPc, ctl, cap, loads, notReadySeen, saveVars,
                 dimVars>>

\* The depth frames ConvertDepthToImage is called with.
ConvertInputs ==
  {[op |-> "convert", pc |-> "call", data |-> d] :
     d \in [1..NumSamples -> ConvSamples]}

\* The camera parameters BuildProjectionMatrix is called with: image size,
\* lens intrinsics, clip planes (near 1/10, far 100).
ProjectInputs ==
  {[op |-> "project", pc |-> "call",
    width |-> FInt(w), height |-> FInt(3),
    fx |-> fx, fy |-> FInt(2), cx |-> FInt(cx), cy |-> cy,
    skew |-> FInt(sk), near |-> <<1, 10>>, far |-> FInt(100)] :
     w \in {2, 4}, fx \in {FInt(2), <<3, 2>>}, cx \in {1, 2},
     cy \in {FInt(1), <<3, 2>>}, sk \in {0, 1}}

\* ConvertDepthToImage(_data, _imageBuffer, _width, _height).
ConvertCall ==
  /\ calc.op = "convert"
  /\ calc.pc = "call"
  /\ \E out \in ConvertOutcomes(calc.data) :
       calc' = [op |-> "convert", pc |-> "done", data |-> calc.data,
                image |-> out.image, defined |-> out.defined,
                maxDepth |-> out.maxDepth]
  /\ UNCHANGED sensorState

\* CreateCamera, lines 537-548: the projection matrix built from the lens
\* intrinsics of the description.
ProjectionCall ==
  /\ calc.op = "project"
  /\ calc.pc = "call"
  /\ calc' = [calc EXCEPT !.pc = "built"] @@
             [P |-> BuildProjectionMatrix(calc.width, calc.height, calc.fx,
                      calc.fy, calc.cx, calc.cy, calc.skew, calc.near,
                      calc.far)]
  /\ UNCHANGED sensorState

\* CreateCamera, lines 522-532: the intrinsics read back from a projection
\* matrix.
IntrinsicsCall ==
  /\ calc.op = "project"
  /\ calc.pc = "built"
  /\ calc' = [calc EXCEPT !.pc = "done"] @@
             [K |-> ProjectionToCameraIntrinsic(calc.P, calc.width,
                                                calc.height)]
  /\ UNCHANGED sensorState

InitCalc == SensorInit /\ calc \in (ConvertInputs \cup ProjectInputs)

NextCalc == ConvertCall \/ ProjectionCall \/ IntrinsicsCall

SpecCalc == InitCalc /\ [][NextCalc]_vars

\* ================================================================ claims

\* What an Update call that ended (returned, or took the process down) did.
TickEnded == tickPc \in {"done", "crashed"}

\* ---------------------------------------------------------------- C1

\* C1: an Update that finds the sensor not initialized, or without a depth
\* camera, returns false without side effects: it triggers no render pass,
\* publishes no depth, point-cloud or info message, invokes no direct
\* callback, and none of its steps changes a buffer, a sequence counter or
\* any other field of the sensor.
C1_FailFastNoSideEffects ==
  /\ [](tick.step1 \in {"notInit", "noCamera"} =>
          /\ tickPc = "done"
          /\ tick.ret = "false"
          /\ ~tick.rendered
          /\ tick.info = 0
          /\ tick.depthMsgs = <<>> /\ tick.pointMsgs = <<>>
          /\ tick.invoked = <<>>
          /\ tick.wrote = {})
  /\ [][(tickPc \in {"idle", "checkCamera"} /\ tickPc' # tickPc) =>
          UNCHANGED <<sensorVars, bufferVars, seqNum, imageEvent, mutex>>]_vars

\* Update returned false on an initialized sensor whose camera is missing.
C1_Witness ==
  /\ tickPc = "done"
  /\ tick.step1 = "noCamera"
  /\ tick.ret = "false"
  /\ initialized

\* ---------------------------------------------------------------- C2

\* C2: an Update on an initialized sensor with a camera that finds no
\* subscriber on the depth output (neither a Bus subscriber nor a direct
\* callback) and none on the point output triggers no render pass, publishes
\* no depth or point-cloud message and leaves depthBuffer, pointCloudBuffer,
\* xyzBuffer, the image and the point-cloud message unchanged.
C2_NoSubscribersNoWork ==
  /\ []((tick.checkedSubs /\ ~tick.depthSub /\ ~tick.pointSub) =>
          /\ tickPc = "done"
          /\ ~tick.rendered
          /\ tick.depthMsgs = <<>> /\ tick.pointMsgs = <<>>
          /\ tick.wrote = {})
  /\ [][(tickPc = "checkSubs" /\ tickPc' = "done") =>
          UNCHANGED <<bufferVars, seqNum>>]_vars

\* Update skipped its work although the capture callbacks are connected and
\* a frame had been captured before.
C2_Witness ==
  /\ tickPc = "done"
  /\ tick.step1 = "passed"
  /\ tick.checkedSubs /\ ~tick.depthSub /\ ~tick.pointSub
  /\ depthConnection
  /\ depthBuffer \in DepthFrames

\* ---------------------------------------------------------------- C3

\* C3: an Update on an initialized sensor with a camera that finds at least
\* one depth subscriber and no point subscriber publishes exactly one depth
\* message and no point-cloud message.
C3_OneDepthMsgNoPointMsg ==
  (/\ TickEnded
   /\ tick.step1 = "passed"
   /\ tick.depthSub /\ ~tick.pointSub
   /\ (tick.reached7 => ~tick.pointSub7))
  => (Len(tick.depthMsgs) = 1 /\ Len(tick.pointMsgs) = 0)

\* ---------------------------------------------------------------- C4

\* C4: when a direct callback throws during the fan-out of the depth
\* message, the exception does not reach Update's caller, Update returns
\* true, and the point-cloud message is still published in that tick if the
\* point topic has a subscriber and a point cloud has been captured.
C4_CallbackFaultDoesNotStopTick ==
  (tickPc = "done" /\ tick.raised) =>
     /\ tick.ret = "true"
     /\ tick.reached7
     /\ (tick.pointSub7 /\ tick.cloudReady7) => Len(tick.pointMsgs) = 1

\* A callback threw and the point cloud was published in the same tick.
C4_Witness ==
  /\ tickPc = "done"
  /\ tick.raised
  /\ tick.ret = "true"
  /\ Len(tick.depthMsgs) = 1
  /\ Len(tick.pointMsgs) = 1

\* ---------------------------------------------------------------- C5

\* C5: when one of several registered direct callbacks throws during a
\* tick, every other registered callback is still invoked with the tick's
\* depth message, and the exception does not reach the caller.
C5_FaultIsolatedPerCallback ==
  (tickPc \in {"points", "unwind", "done"} /\ tick.raised) =>
     /\ Len(tick.invoked) = tick.nCallbacks
     /\ tick.ret # "exception"

\* ---------------------------------------------------------------- C6

\* C6: when the configured horizontal FOV is invalid and camera creation
\* fails in Load, Load returns false and initialized stays false.
C6_InvalidFovFailsLoad ==
  (ctlPc = "done" /\ ctl.op = "Load" /\ ctl.createRet = "false") =>
     (ctl.ret = "false" /\ ~initialized)

\* ---------------------------------------------------------------- C7

\* C7: a Load given a description whose type is not DEPTH_CAMERA returns
\* false, advertises no publisher, creates no camera and leaves initialized
\* false.
C7_WrongTypeAbortsLoad ==
  (ctlPc = "done" /\ ctl.op = "Load" /\ ctl.type # "DEPTH_CAMERA") =>
     /\ ctl.ret = "false"
     /\ ~pub /\ ~pointPub
     /\ depthCamera = 0
     /\ ~initialized

\* ---------------------------------------------------------------- C8

\* The next statement of the tick thread reads initialized (line 675) or
\* depthCamera (lines 681, 701), or reads or writes a buffer (lines 720-775).
TickAccessesGuardedField ==
  \/ tickPc = "checkCamera"
  \/ (tickPc = "render" /\ tick.pending = {} /\ cap["tick"].pc = "idle")
  \/ tickPc = "points"

\* The next statement of the control thread writes depthCamera or
\* initialized (CreateCamera, the end of Load).
CtlAccessesGuardedField ==
  ctlPc \in {"createCamera", "createCameraFov", "loadEnd"}

\* C8: every read and write of the buffers, of initialized and of
\* depthCamera is made by a thread that holds the mutex.
C8_LockDiscipline ==
  /\ TickAccessesGuardedField => mutex = "tick"
  /\ CtlAccessesGuardedField => mutex = "ctl"
  /\ \A t \in {"tick", "rnd"} : cap[t].pc = "copy" => mutex = t

\* ---------------------------------------------------------------- C9

\* C9: the publish path never observes a partially overwritten buffer: the
\* payload of every depth message, and the depth and point-cloud buffers
\* read when the point-cloud message is built, each equal one completed
\* capture in full.
C9_NoTornBufferObserved ==
  /\ \A i \in 1..Len(tick.depthMsgs) : tick.depthMsgs[i].data \in DepthFrames
  /\ tick.read7 # <<>> =>
       (tick.read7[1] \in DepthFrames /\ tick.read7[2] \in CloudFrames)

\* The renderer thread replaced the depth frame between the render pass and
\* the publication; the tick published the new frame and built the point
\* cloud from complete buffers.
C9_Witness ==
  /\ tickPc = "done"
  /\ Len(tick.depthMsgs) = 1
  /\ tick.depthMsgs[1].data = DepthFrame(2)
  /\ tick.read7 = <<DepthFrame(2), CloudFrame(1)>>
  /\ cap["rnd"].pc = "copy"

\* --------------------------------------------------------------- C10

\* C10: after an Update failed because the sensor was not initialized or
\* had no camera, a later Update that passes both checks and finds a depth
\* subscriber renders and publishes one depth message.
C10_NotReadyIsRecoverable ==
  (/\ notReadySeen
   /\ TickEnded
   /\ tick.step1 = "passed"
   /\ tick.depthSub)
  => (tick.rendered /\ Len(tick.depthMsgs) = 1)

\* --------------------------------------------------------------- C11

\* C11: with frame saving on, the files written are named with the
\* counter values 0, 1, 2, ... in this order, without gap or repeat,
\* whatever ticks, captures and failed saves come in between; the counter
\* is the number of files written.
C11_SavedNamesCountFromZero ==
  /\ \A i \in 1..Len(saved) : saved[i] = i - 1
  /\ saveImageCounter = Len(saved)

\* Two frames were saved as 0 and 1 and the save of the tick's own capture
\* failed on the directory.
C11_Witness ==
  /\ saved = <<0, 1>>
  /\ tick.saveFailed

\* --------------------------------------------------------------- C12

\* C12: when the save directory cannot be created during the capture of a
\* tick's frame, no file is written and the counter is not advanced, the
\* frame is stored in depthBuffer, and the tick publishes its depth message
\* and returns true.
C12_SaveFailureLeavesTickAlone ==
  (TickEnded /\ tick.saveFailed) =>
     /\ saveImageCounter = Len(saved)
     /\ "depthBuffer" \in tick.wrote
     /\ tick.ret = "true"
     /\ Len(tick.depthMsgs) = 1
     /\ tick.depthMsgs[1].data \in DepthFrames

\* --------------------------------------------------------------- C13

\* The positions of the finite samples of a frame.
FinitePositions(data) == {j \in 1..Len(data) : data[j] # Inf}

\* C13: for a frame with at least one finite positive sample, maxDepth is
\* the maximum over the finite samples only, every finite sample lies in
\* [0, maxDepth] so that 255 - sample * 255 / maxDepth lies in [0, 255] and
\* its byte is defined, and every sample equal to the maximum gets byte 0.
C13_MaxOverFiniteSamples ==
  (/\ calc.op = "convert"
   /\ calc.pc = "done"
   /\ \E j \in FinitePositions(calc.data) : calc.data[j] > 0)
  => LET fin == FinitePositions(calc.data)
         mx == CHOOSE m \in {calc.data[j] : j \in fin} :
                 \A j \in fin : calc.data[j] <= m
     IN /\ calc.maxDepth = mx
        /\ \A j \in fin :
             /\ 0 <= calc.data[j] /\ calc.data[j] <= calc.maxDepth
             /\ calc.defined[j]
             /\ calc.image[3 * j] \in 0..255
             /\ calc.data[j] = mx => calc.image[3 * j] = 0

\* A frame with an infinite sample and a finite maximum was converted.
C13_Witness ==
  /\ calc.op = "convert"
  /\ calc.pc = "done"
  /\ calc.data[1] = Inf
  /\ calc.data[2] = 7
  /\ calc.maxDepth = 7
  /\ calc.image[6] = 0

\* --------------------------------------------------------------- C14

\* C14: ConvertDepthToImage writes a defined byte for every pixel, also for
\* an infinite sample and for a frame whose samples are all infinite.
C14_EveryByteDefined ==
  (calc.op = "convert" /\ calc.pc = "done") =>
     \A j \in 1..Len(calc.data) : calc.defined[j]

\* --------------------------------------------------------------- C15

\* C15: the intrinsics read back from the matrix BuildProjectionMatrix
\* builds are the fx, fy, cx and cy it was built from.
C15_IntrinsicsRoundTrip ==
  (calc.op = "project" /\ calc.pc = "done") =>
     /\ calc.K.fx = calc.fx
     /\ calc.K.fy = calc.fy
     /\ calc.K.cx = calc.cx
     /\ calc.K.cy = calc.cy

\* The round trip was made for an off-centre principal point and a skew.
C15_Witness ==
  /\ calc.op = "project"
  /\ calc.pc = "done"
  /\ calc.cy = <<1, 1>>
  /\ calc.cx = <<1, 1>>
  /\ calc.skew = <<1, 1>>
  /\ calc.K.cy = <<1, 1>>

\* --------------------------------------------------------------- C16

\* C16: an Update that skips its work because neither output has a
\* subscriber does not return the failure status of the step-1 errors.
C16_SkipIsNotFailure ==
  (/\ tickPc = "done"
   /\ tick.step1 = "passed"
   /\ tick.checkedSubs /\ ~tick.depthSub /\ ~tick.pointSub)
  => tick.ret # "false"

\* --------------------------------------------------------------- C17

\* C17: the entries of BuildProjectionMatrix(width, height, fx, fy, cx, cy,
\* skew, near, far): (0,0) = 2 fx / width, (1,1) = 2 fy / height,
\* (0,2) = 1 - 2 cx / width, (1,2) = 1 - 2 (height - cy) / height, and the
\* fourth row is [0, 0, -1, 0].
C17_ProjectionEntries ==
  (calc.op = "project" /\ calc.pc \in {"built", "done"}) =>
     LET two == FInt(2)
         one == FInt(1)
     IN /\ calc.P[0][0] = FDiv(FMul(two, calc.fx), calc.width)
        /\ calc.P[1][1] = FDiv(FMul(two, calc.fy), calc.height)
        /\ calc.P[0][2] =
             FSub(one, FDiv(FMul(two, calc.cx), calc.width))
        /\ calc.P[1][2] =
             FSub(one, FDiv(FMul(two, FSub(calc.height, calc.cy)),
                            calc.height))
        /\ calc.P[3] = [c \in 0..3 |-> IF c = 2 THEN FInt(-1) ELSE FInt(0)]

\* The matrix for width 4, height 3, fx = fy = 2, cx = 2, cy = 3/2:
\* its (0,0) entry is 1 and its (1,2) entry is 0.
C17_Witness ==
  /\ calc.op = "project"
  /\ calc.pc = "built"
  /\ calc.width = <<4, 1>>
  /\ calc.fx = <<2, 1>>
  /\ calc.cy = <<3, 2>>
  /\ calc.P[0][0] = <<1, 1>>
  /\ calc.P[1][2] = <<0, 1>>

\* --------------------------------------------------------------- C18

\* round(n / d) for n >= 0, d > 0: halves go up.
RoundDiv(n, d) == (2 * n + d) \div (2 * d)

\* C18: for every finite sample of a frame with maxDepth > 0 the byte
\* written is 255 - round(sample * 255 / maxDepth), the same in the three
\* channels of the pixel.
C18_ByteIsRounded ==
  (calc.op = "convert" /\ calc.pc = "done" /\ calc.maxDepth > 0) =>
     \A j \in FinitePositions(calc.data) :
        /\ calc.image[3 * j - 2] =
             255 - RoundDiv(255 * calc.data[j], calc.maxDepth)
        /\ calc.image[3 * j - 1] = calc.image[3 * j - 2]
        /\ calc.image[3 * j] = calc.image[3 * j - 2]

\* --------------------------------------------------------------- C19

\* A depth / point-cloud message is published in the step.
DepthPublished ==
  tickPc' # "idle" /\ Len(tick'.depthMsgs) = Len(tick.depthMsgs) + 1
PointPublished ==
  tickPc' # "idle" /\ Len(tick'.pointMsgs) = Len(tick.pointMsgs) + 1

\* C19: the depth counter advances by one exactly in the steps that publish
\* a depth message and the point counter by one exactly in the steps that
\* publish a point-cloud message, each message carrying the value its
\* counter had; an Update that returned false published nothing.
C19_SequenceCounters ==
  /\ [][/\ seqNum'.default =
             seqNum.default + (IF DepthPublished THEN 1 ELSE 0)
        /\ seqNum'.pointMsg =
             seqNum.pointMsg + (IF PointPublished THEN 1 ELSE 0)
        /\ DepthPublished =>
             tick'.depthMsgs[Len(tick'.depthMsgs)].seq = seqNum.default
        /\ PointPublished =>
             tick'.pointMsgs[Len(tick'.pointMsgs)].seq = seqNum.pointMsg
       ]_vars
  /\ [](tick.ret = "false" =>
          (tick.depthMsgs = <<>> /\ tick.pointMsgs = <<>>))

\* A tick published a depth message and a point-cloud message: both
\* counters have advanced from 0 to 1.
C19_Witness ==
  /\ tickPc = "done"
  /\ Len(tick.depthMsgs) = 1 /\ tick.depthMsgs[1].seq = 0
  /\ Len(tick.pointMsgs) = 1 /\ tick.pointMsgs[1].seq = 0
  /\ seqNum = [default |-> 1, pointMsg |-> 1]

\* --------------------------------------------------------------- C20

\* C20: a tick that passed the checks of steps 1 and 3 publishes a
\* point-cloud message if and only if the point topic has a subscriber and
\* a point cloud has been captured; the message is dense, carries the
\* tick's time and the layout set at camera creation.
C20_PointMsgIffSubscriberAndCloud ==
  (TickEnded /\ tick.step1 = "passed" /\ tick.rendered) =>
     LET sub == tick.pointSub /\ (tick.reached7 => tick.pointSub7)
         noSub == ~tick.pointSub /\ (tick.reached7 => ~tick.pointSub7)
         cloud == IF tick.reached7 THEN tick.cloudReady7
                  ELSE pointCloudBuffer # <<>>
     IN /\ (sub /\ cloud) => Len(tick.pointMsgs) = 1
        /\ (noSub \/ ~cloud) => Len(tick.pointMsgs) = 0
        /\ \A i \in 1..Len(tick.pointMsgs) :
             /\ tick.pointMsgs[i].dense
             /\ tick.pointMsgs[i].stamp = tick.now
             /\ tick.pointMsgs[i].layout

\* C21: in step 7 of a tick, before XYZFromPointCloud and
\* ConvertDepthToImage run, the xyz scratch buffer holds width*height*3
\* floats and the grayscale image width*height*3 bytes for the width and
\* height the tick read from the camera: both are reallocated when the
\* dimensions differ from those they were allocated for.  (For the xyz
\* buffer the formula asks only that width*height*3 floats fit.)
C21_ScratchBuffersMatchDimensions ==
  (tickPc = "done" /\ tick.pointMsgs # <<>>) =>
    /\ tick.xyzSize7 >= 3 * tick.size
    /\ tick.imageSize7 = 3 * tick.size

\* C22: Update never dereferences an absent camera: the camera it found
\* present in step 1 is still present when it reads ImageWidth and
\* ImageHeight after the render, whatever SetScene does on another thread.
C22_CameraPresentAtEveryUse == tick.fault # "nullCamera"

\* C23: a tick that reaches step 5 finds depthBuffer allocated by an earlier
\* OnNewDepthFrame capture: Update never reads through a null depthBuffer.
C23_DepthBufferAllocatedAtStep5 == tick.fault # "nullDepthBuffer"

\* C24: whatever the sizes of the frames the capture callbacks are called
\* with, no more floats are copied into depthBuffer or pointCloudBuffer
\* than the buffer was allocated with on its first capture, and Update
\* reads no more floats from depthBuffer than that.
C24_CaptureBounds ==
  overrun \cap {"depthBuffer write", "pointCloudBuffer write",
                "depthBuffer read"} = {}

\* The colours of the points of a point-cloud message.
PointColours(msg) == [i \in 1..Len(msg.data) |-> msg.data[i][4]]

\* The grayscale colours, pixel by pixel, of a depth payload.
GrayColours(data) ==
  LET img == ConvertDepthToImage(data)
  IN [i \in 1..Len(data) |-> <<img[3 * i - 2], img[3 * i - 1], img[3 * i]>>]

\* C26: between the copy of the depth payload into the depth message and
\* the publication of the point cloud Update holds the mutex and no capture
\* callback runs, and the depth message and the colours of the point cloud
\* published by the same tick come from the same depth frame.
C26_SameFrameConsistency ==
  /\ tickPc = "points" =>
        /\ mutex = "tick"
        /\ \A t \in {"tick", "rnd"} : cap[t].pc = "idle"
  /\ (tickPc = "done" /\ tick.depthMsgs # <<>> /\ tick.pointMsgs # <<>>) =>
        PointColours(tick.pointMsgs[1]) = GrayColours(tick.depthMsgs[1].data)

\* A tick published both messages from the frame the renderer thread
\* delivered after the tick's own render pass.
C26_Witness ==
  /\ tickPc = "done"
  /\ tick.pointMsgs # <<>>
  /\ tick.depthMsgs # <<>>
  /\ tick.depthMsgs[1].data = DepthFrame(2)
  /\ "depthBuffer" \in tick.wrote

\* An Update call is in progress.
TickRunning == tickPc \notin {"idle", "done"}

\* C25: no deadlock on the mutex: Update renders before it takes the mutex
\* and no thread asks for the mutex while holding it, so every tick (the
\* render pass and the subscriber callbacks of the model always return)
\* eventually returns.
C25_EveryTickReturns ==
  /\ []((tickPc = "render" /\ cap["tick"].pc = "idle") => mutex # "tick")
  /\ [](tickPc = "lock" => mutex # "tick")
  /\ [](ctlPc = "idle" => mutex # "ctl")
  /\ (TickRunning ~> tickPc = "done")

\* Every tick ends: it returns or takes the process down.
TickNeverHangs == TickRunning ~> TickEnded

====
